---- MODULE Spec2Model ----
(***************************************************************************)
(* Model of the batch-upload pipeline of tiny-data-gen (src/main.rs).      *)
(*                                                                         *)
(* main() builds one expression:                                           *)
(*     stream::iter(0..batches.unwrap_or(usize::MAX))                      *)
(*         .co().limit(Some(concurrency_limit))                            *)
(*         .map(async |i| { generate; compress })                          *)
(*         .try_for_each(async |res| { res?; post; println!("sent") })     *)
(*         .await?                                                         *)
(*                                                                         *)
(* The concurrent-stream combinators come from the futures_concurrency     *)
(* crate.  Their behaviour at these call sites is modelled as the crate    *)
(* implements it: the driver of the stream (`drive`) races the stream's    *)
(* next item against the consumer's progress; the consumer of              *)
(* try_for_each keeps the futures of the admitted units in one group,      *)
(* counts them in `count`, waits in `send` for a free slot while           *)
(* count >= limit, stores the first error as `residual` and breaks the     *)
(* loop, and `flush` returns the residual at once or else drains the       *)
(* group.  One unit of work is ONE future: the map closure followed by the *)
(* try_for_each closure.  All futures are polled by the single main task;  *)
(* the blocking generation task and the HTTP endpoint are the environment. *)
(***************************************************************************)
EXTENDS Integers, Sequences, FiniteSets, TLC

\* Largest configured batch count explored (args.batches = Some(0..MaxBatches)).
MaxBatches == 3
\* Largest configured concurrency limit explored (1..MaxLimit).
MaxLimit == 2
\* Largest configured number of lines per batch explored (0..MaxLines).
MaxLines == 1
\* Longest base URL explored.
MaxUrlLen == 3

\* usize is modelled by the values 0..UsizeMax.
UsizeMax == MaxBatches
\* args.batches = None ("infinite").
Unbounded == -1

NoCompression == "None"
\* enum CompressionLevel
CompressionLevel == {"Fastest", "Best", "Default"}

\* What the endpoint can answer to one request: an HTTP status, or no
\* response at all (connection failure, timeout: send() returns Err).
Statuses == {200, 404, 429, 503}
Responses == [kind : {"status"}, code : Statuses] \cup {[kind |-> "transport", code |-> 0]}
NoResponse == [kind |-> "none", code |-> 0]

\* How the spawn_blocking task of one batch can end: the lines, an error of
\* gen_line, or a JoinError (the task panicked or the runtime shut down).
GenResults == {"lines", "gen line", "join"}
\* How the gzip encoder can end when a compression level is configured.
EncodeResults == {"ok", "compress data", "flush encoder"}

NoErr == [idx |-> -1, ctx |-> "none"]
Err(i, c) == [idx |-> i, ctx |-> c]
NoItem == -1

\* Strings are sequences of tokens.  A base URL is made of the characters
\* "h" and "/"; the fixed write path and one formatted record are one token
\* each.
UrlChars == {"h", "/"}
WritePath == "/api/v2/write"
Record == "table,tag=.. field_s=..,field_i=..i,field_u=..u,field_f=..,field_b=.. time"
Newline == "\n"

VARIABLES
    batches,            \* args.batches (Some(n), or Unbounded for None)
    batch_lines,        \* args.batch_lines
    url,                \* args.url
    concurrency_limit,  \* args.concurrency_limit
    compression_level,  \* args.compression_level
    iter,               \* next index the range iterator yields
    pc,                 \* position of drive(): "race", "send", "flush", "done"
    item,               \* index handed to consumer.send(), waiting for a slot
    count,              \* TryForEachConsumer.count
    group,              \* TryForEachConsumer.group: the futures not yet completed
    unit,               \* per index: the state of its future
    residual,           \* TryForEachConsumer.residual
    stdout,             \* the ordinals printed by println!("sent {}", i + 1)
    result,             \* what main returns
    requests,           \* per index: number of HTTP requests emitted
    fatal,              \* history: the errors the unit futures returned, in order
    admissions          \* history: the indices in the order they joined the group

vars == <<batches, batch_lines, url, concurrency_limit, compression_level, iter, pc,
          item, count, group, unit, residual, stdout, result, requests, fatal,
          admissions>>

config == <<batches, batch_lines, url, concurrency_limit, compression_level>>

\* Every value an index of type usize can take.
Indices == 0 .. UsizeMax

\* 0..args.batches.unwrap_or(usize::MAX): the exclusive end of the range.
RangeEnd == IF batches = Unbounded THEN UsizeMax ELSE batches

IdleUnit ==
    [st |-> "idle", gen |-> "none", lines |-> <<>>, enc |-> "none", body |-> <<>>,
     url |-> <<>>, resp |-> NoResponse]

\* The base URLs explored: every string of at most MaxUrlLen characters.
Urls == UNION {[1 .. n -> UrlChars] : n \in 0 .. MaxUrlLen}

Running == [kind |-> "running", err |-> NoErr]
ReturnOk == [kind |-> "Ok", err |-> NoErr]
ReturnErr(e) == [kind |-> "Err", err |-> e]

\* The state in which drive() starts, for a parsed Args.
Start ==
    /\ iter = 0
    /\ pc = "race"
    /\ item = NoItem
    /\ count = 0
    /\ group = {}
    /\ unit = [i \in Indices |-> IdleUnit]
    /\ residual = NoErr
    /\ stdout = <<>>
    /\ result = Running
    /\ requests = [i \in Indices |-> 0]
    /\ fatal = <<>>
    /\ admissions = <<>>

\* Every batch count, limit, compression level and line count, with one
\* base URL.
Init ==
    /\ batches \in (0 .. MaxBatches) \cup {Unbounded}
    /\ batch_lines \in 0 .. MaxLines
    /\ url = <<"h", "/">>
    /\ concurrency_limit \in 1 .. MaxLimit
    /\ compression_level \in {NoCompression} \cup CompressionLevel
    /\ Start

\* One batch, every base URL.
RequestInit ==
    /\ batches = 1
    /\ batch_lines \in 0 .. MaxLines
    /\ url \in Urls
    /\ concurrency_limit = 1
    /\ compression_level \in {NoCompression, "Default"}
    /\ Start

\* The finite batch counts, with one line count.
FairInit ==
    /\ Init
    /\ batches # Unbounded
    /\ batch_lines = 1

(***************************************************************************)
(* Pure pieces of the unit of work.                                        *)
(***************************************************************************)

\* Variant: the label does not follow the configuration.
ContentEncodingAlwaysIdentity(level) == "identity"

\* match args.compression_level { None => "identity", Some(_) => "gzip" }
ContentEncoding(level) == IF level = NoCompression THEN "identity" ELSE "gzip"

\* The ways the encode step can end: without compression nothing can fail;
\* with it, write_all and shutdown each end in `?`.
EncodeOutcomes(level) == IF level = NoCompression THEN {"ok"} ELSE EncodeResults

\* write!(w, "table,...{time}\n"): one record and its newline are appended.
GenLine(w) == w \o <<Record, Newline>>

\* for _ in 0..batch_lines { gen_line(&mut lines, &mut rng)? }
RECURSIVE GenLoop(_, _)
GenLoop(n, w) == IF n = 0 THEN w ELSE GenLoop(n - 1, GenLine(w))

\* Variant: the loop runs once too often (0..=batch_lines).
GenBatchInclusive(n) == GenLoop(n + 1, <<>>)

\* The String the blocking task returns: String::new() filled by the loop.
GenBatch(n) == GenLoop(n, <<>>)

\* GzipEncoder::with_quality(Vec::new(), level), write_all, shutdown,
\* into_inner: a gzip stream (header, the deflated data, trailer).
Gzip(level, bytes) == <<"gzip header", level>> \o bytes \o <<"gzip trailer">>

\* match args.compression_level { None => lines.into_bytes(), Some(l) => .. }
EncodeBody(level, lines) == IF level = NoCompression THEN lines ELSE Gzip(level, lines)

\* str::trim_end_matches: every trailing occurrence of c is removed.
RECURSIVE TrimEndMatches(_, _)
TrimEndMatches(u, c) ==
    IF Len(u) > 0 /\ u[Len(u)] = c
    THEN TrimEndMatches(SubSeq(u, 1, Len(u) - 1), c)
    ELSE u

\* Variant: the base URL is used as it is.
RequestUrlUntrimmed(u) == u \o <<WritePath>>

\* format!("{}/api/v2/write", args.url.trim_end_matches("/"))
RequestUrl(u) == TrimEndMatches(u, "/") \o <<WritePath>>

\* Variant: only server errors are turned into an error.
ErrorForServerStatus(code) == code >= 500 /\ code <= 599

\* Response::error_for_status: an error for a client or server error status.
ErrorForStatus(code) == code >= 400 /\ code <= 599

\* println!("sent {}", i + 1), in usize arithmetic.
Ordinal(i) == (i + 1) % (UsizeMax + 1)

\* Variant: the range includes its end (0..=end).
InRangeInclusive(i, end) == i <= end

\* Range::next yields the next index while it is below the end.
InRange(i, end) == i < end

\* Variant: the iterator steps by two.
StepByTwo(i) == i + 2

\* Range::next steps to the following index.
Step(i) == i + 1

\* Variant: off by one, a future is admitted while count = limit.
HasSpaceOffByOne(c, limit) == c <= limit

\* TryForEachConsumer::send admits a future once count < limit (it waits on
\* the group `while count >= limit`).
HasSpace(c, limit) == c < limit

\* Variant: the completed future does not give its slot back.
ReleaseForgotten(c) == c

\* TryForEachFut decrements the shared count when its future completes.
Release(c) == c - 1

\* Variant: the driver ignores Break and stays in its loop.
AfterBreakContinue(p) == p

\* drive(): `ConsumerState::Break => break` leaves the loop for flush().
AfterBreak(p) == "flush"

(***************************************************************************)
(* The driver: FromStream::drive with the try_for_each consumer.           *)
(***************************************************************************)

\* (b, a).race(): the stream side.  The range iterator is always ready, with
\* the next index or with None.  Progress() returning Empty takes the same
\* two branches.
StreamNext ==
    /\ pc = "race"
    /\ IF InRange(iter, RangeEnd)
       THEN /\ item' = iter
            /\ iter' = Step(iter)
            /\ pc' = "send"
       ELSE /\ pc' = "flush"
            /\ UNCHANGED <<item, iter>>
    /\ UNCHANGED <<config, count, group, unit, residual, stdout, result, requests, fatal,
                   admissions>>

\* consumer.send(): space is available, the unit's future joins the group.
\* It is not polled here: generation starts at its first poll.
Insert ==
    /\ pc = "send"
    /\ HasSpace(count, concurrency_limit)
    /\ count' = count + 1
    /\ group' = group \cup {item}
    /\ unit' = [unit EXCEPT ![item].st = "new"]
    /\ admissions' = Append(admissions, item)
    /\ item' = NoItem
    /\ pc' = "race"
    /\ UNCHANGED <<config, iter, residual, stdout, result, requests, fatal>>

\* Variant: flush() drains the group before it looks at the residual.
CanPollDraining ==
    \/ pc = "race"
    \/ pc = "send" /\ ~HasSpace(count, concurrency_limit)
    \/ pc = "flush"

\* Where the group is polled (group.next().await): in progress() inside the
\* race, in send() while there is no space, in flush() when no residual is
\* stored.
CanPoll ==
    \/ pc = "race"
    \/ pc = "send" /\ ~HasSpace(count, concurrency_limit)
    \/ pc = "flush" /\ residual = NoErr

\* A unit's future completed with Ok(()): it leaves the group; every loop
\* around group.next() goes on.
CompleteOk(i) ==
    /\ group' = group \ {i}
    /\ count' = Release(count)
    /\ unit' = [unit EXCEPT ![i].st = "ok"]
    /\ stdout' = Append(stdout, Ordinal(i))
    /\ UNCHANGED <<config, admissions, iter, pc, item, residual, result, requests, fatal>>

\* A unit's future completed with Err(e).  progress() and send() store the
\* residual and return Break; flush() returns the error itself, main's `?`
\* returns it and every future still in the group is dropped.
CompleteErr(i, e) ==
    /\ group' = group \ {i}
    /\ count' = Release(count)
    /\ unit' = [unit EXCEPT ![i].st = "err"]
    /\ fatal' = Append(fatal, e)
    /\ IF pc = "flush"
       THEN /\ result' = ReturnErr(e)
            /\ pc' = "done"
            /\ UNCHANGED <<residual, item>>
       ELSE /\ residual' = e
            /\ pc' = AfterBreak(pc)
            /\ item' = NoItem
            /\ UNCHANGED result
    /\ UNCHANGED <<config, admissions, iter, stdout, requests>>

\* First poll of a unit: spawn_blocking starts the generation of the batch.
StartGenerate(i) ==
    /\ CanPoll
    /\ i \in group
    /\ unit[i].st = "new"
    /\ unit' = [unit EXCEPT ![i].st = "generating"]
    /\ UNCHANGED <<config, admissions, iter, pc, item, count, group, residual, stdout, result,
                   requests, fatal>>

\* Variant: the error of the blocking task is swallowed and the (empty)
\* batch is posted all the same.
GenerateFailedSwallowed(i) ==
    /\ CanPoll
    /\ i \in group
    /\ unit[i].st = "generated"
    /\ unit[i].gen # "lines"
    /\ unit' = [unit EXCEPT ![i].st = "sending"]
    /\ requests' = [requests EXCEPT ![i] = @ + 1]
    /\ UNCHANGED <<config, admissions, iter, pc, item, count, group, residual, stdout, result,
                   fatal>>

\* The blocking task ended in an error: `.await.context("join")??`.
GenerateFailed(i) ==
    /\ CanPoll
    /\ i \in group
    /\ unit[i].st = "generated"
    /\ unit[i].gen # "lines"
    /\ CompleteErr(i, Err(i, unit[i].gen))

\* The lines are there: encode them, then (try_for_each closure) build the
\* request and emit it.  The encoder writes to a Vec and never suspends.
EncodeAndPost(i, e) ==
    /\ CanPoll
    /\ i \in group
    /\ unit[i].st = "generated"
    /\ unit[i].gen = "lines"
    /\ e \in EncodeOutcomes(compression_level)
    /\ IF e = "ok"
       THEN /\ unit' = [unit EXCEPT ![i].st = "sending",
                                    ![i].enc = ContentEncoding(compression_level),
                                    ![i].body = EncodeBody(compression_level,
                                                           unit[i].lines),
                                    ![i].url = RequestUrl(url)]
            /\ requests' = [requests EXCEPT ![i] = @ + 1]
            /\ UNCHANGED <<config, admissions, iter, pc, item, count, group, residual, stdout,
                           result, fatal>>
       ELSE CompleteErr(i, Err(i, e))

\* Variant: a transport failure, a 5xx or a 429 re-issues the request (up to
\* three requests) instead of returning the error.
ReceiveRetrying(i) ==
    /\ CanPoll
    /\ i \in group
    /\ unit[i].st = "responded"
    /\ LET r == unit[i].resp
           again == r.kind = "transport" \/ r.code = 429 \/ r.code >= 500
       IN  IF again /\ requests[i] < 3
           THEN /\ unit' = [unit EXCEPT ![i].st = "sending", ![i].resp = NoResponse]
                /\ requests' = [requests EXCEPT ![i] = @ + 1]
                /\ UNCHANGED <<config, admissions, iter, pc, item, count, group, residual, stdout,
                               result, fatal>>
           ELSE IF r.kind = "transport"
                THEN CompleteErr(i, Err(i, "post data"))
                ELSE IF ErrorForStatus(r.code)
                     THEN CompleteErr(i, Err(i, "error status"))
                     ELSE CompleteOk(i)

\* send().await returned: `.context("post data")?.error_for_status()
\* .context("error status")?; println!(..); Ok(())`.
Receive(i) ==
    /\ CanPoll
    /\ i \in group
    /\ unit[i].st = "responded"
    /\ IF unit[i].resp.kind = "transport"
       THEN CompleteErr(i, Err(i, "post data"))
       ELSE IF ErrorForStatus(unit[i].resp.code)
            THEN CompleteErr(i, Err(i, "error status"))
            ELSE CompleteOk(i)

\* Variant: flush() forgets the stored residual and drains the group.
FlushResidualIgnored ==
    /\ pc = "flush"
    /\ residual # NoErr
    /\ residual' = NoErr
    /\ UNCHANGED <<config, admissions, iter, pc, item, count, group, unit, stdout, result, requests,
                   fatal>>

\* flush(): `if let Some(residual) = self.residual.take() { return .. }`;
\* main returns the error and the futures left in the group are dropped.
FlushResidual ==
    /\ pc = "flush"
    /\ residual # NoErr
    /\ result' = ReturnErr(residual)
    /\ residual' = NoErr
    /\ pc' = "done"
    /\ UNCHANGED <<config, admissions, iter, item, count, group, unit, stdout, requests, fatal>>

\* Variant: flush() returns Ok without draining the group.
FlushDoneEarly ==
    /\ pc = "flush"
    /\ residual = NoErr
    /\ result' = ReturnOk
    /\ pc' = "done"
    /\ UNCHANGED <<config, admissions, iter, item, count, group, unit, residual, stdout, requests,
                   fatal>>

\* flush(): the group is drained, group.next() returned None: Ok(()).
FlushDone ==
    /\ pc = "flush"
    /\ residual = NoErr
    /\ group = {}
    /\ result' = ReturnOk
    /\ pc' = "done"
    /\ UNCHANGED <<config, admissions, iter, item, count, group, unit, residual, stdout, requests,
                   fatal>>

(***************************************************************************)
(* The environment: the blocking thread pool and the HTTP endpoint.        *)
(***************************************************************************)

\* The closure given to spawn_blocking ended.
BlockingDone(i, g) ==
    /\ pc # "done"
    /\ unit[i].st = "generating"
    /\ g \in GenResults
    /\ unit' = [unit EXCEPT ![i].st = "generated", ![i].gen = g,
                             ![i].lines = IF g = "lines" THEN GenBatch(batch_lines)
                                          ELSE <<>>]
    /\ UNCHANGED <<config, admissions, iter, pc, item, count, group, residual, stdout, result,
                   requests, fatal>>

\* The request of unit i got its answer (or failed at the transport).
Respond(i, r) ==
    /\ pc # "done"
    /\ unit[i].st = "sending"
    /\ r \in Responses
    /\ unit' = [unit EXCEPT ![i].st = "responded", ![i].resp = r]
    /\ UNCHANGED <<config, admissions, iter, pc, item, count, group, residual, stdout, result,
                   requests, fatal>>

Driver ==
    \/ StreamNext
    \/ Insert
    \/ \E i \in Indices : StartGenerate(i)
    \/ \E i \in Indices : GenerateFailed(i)
    \/ \E i \in Indices : \E e \in EncodeResults : EncodeAndPost(i, e)
    \/ \E i \in Indices : Receive(i)
    \/ FlushResidual
    \/ FlushDone

Environment ==
    \/ \E i \in Indices : \E g \in GenResults : BlockingDone(i, g)
    \/ \E i \in Indices : \E r \in Responses : Respond(i, r)

Next == Driver \/ Environment

Spec == Init /\ [][Next]_vars

\* The runtime polls the main task whenever it is woken, the blocking pool
\* runs every task it was given, and the endpoint answers every request.
FairSpec == FairInit /\ [][Next]_vars /\ WF_vars(Driver) /\ WF_vars(Environment)

\* The pipeline run for one batch with every base URL.
RequestSpec == RequestInit /\ [][Next]_vars

(***************************************************************************)
(* Properties.                                                             *)
(***************************************************************************)

\* Indices whose future has joined the group at some time.
Admitted == {i \in Indices : unit[i].st # "idle"}

\* Indices whose generation has started (the future was polled once).
Started == {i \in Indices : unit[i].st \notin {"idle", "new"}}

\* Indices between generation start and the completion of their future.
InPipeline ==
    {i \in Indices : unit[i].st \in {"generating", "generated", "sending", "responded"}}

\* The orchestrator has seen a fatal outcome: a residual is stored, or the
\* error has been returned.
Observed == residual # NoErr \/ result.kind = "Err"

\* The 'sent' line of index i has been printed.
Reported(i) == \E k \in DOMAIN stdout : stdout[k] = Ordinal(i)

\* The classification of section 4.5 of the specification.
Retryable(r) ==
    \/ r.kind = "transport"
    \/ r.kind = "status" /\ (r.code = 429 \/ (r.code >= 500 /\ r.code <= 599))
FatalStatus(r) ==
    r.kind = "status" /\ r.code >= 400 /\ r.code <= 499 /\ r.code # 429

\* C1: in every reachable state, at most concurrency_limit indices have
\* started generation and not yet completed; the consumer's count is the
\* size of the group and never exceeds the limit.
C1_ConcurrencyCeiling ==
    /\ Cardinality(InPipeline) <= concurrency_limit
    /\ count = Cardinality(group)
    /\ count <= concurrency_limit

\* C1 witness: the ceiling is reached with a further index waiting for a slot.
C1_Witness ==
    /\ concurrency_limit >= 2
    /\ Cardinality(InPipeline) = concurrency_limit
    /\ pc = "send"
    /\ item # NoItem

C3_RetryableIsRetried ==
    \A i \in Indices :
        unit[i].st = "err" /\ Retryable(unit[i].resp) => requests[i] >= 2

\* C4: a unit whose request got an error status other than 5xx and 429 has
\* emitted exactly one request; once its future is polled its outcome is the
\* fatal error "error status", the driver has left its loop and main never
\* returns Ok.
C4_FatalStatusNoRetry ==
    \A i \in Indices :
        FatalStatus(unit[i].resp) =>
            /\ requests[i] = 1
            /\ result.kind # "Ok"
            /\ unit[i].st # "ok"
            /\ unit[i].st = "err" =>
                   /\ \E k \in DOMAIN fatal : fatal[k] = Err(i, "error status")
                   /\ pc \in {"flush", "done"}
                   /\ pc = "done" => result.kind = "Err"

\* C4 witness: a 404 was returned as the error of the run.
C4_Witness ==
    \E i \in Indices :
        /\ unit[i].resp = [kind |-> "status", code |-> 404]
        /\ unit[i].st = "err"
        /\ requests[i] = 1
        /\ result = ReturnErr(Err(i, "error status"))

\* C5: once the orchestrator has observed a fatal outcome, no index is
\* admitted and no generation starts.
C5_NoAdmissionAfterFatal ==
    [][Observed => Admitted' = Admitted /\ Started' = Started]_vars

\* C5 witness: the run ended on an error with indices never admitted.
C5_Witness ==
    /\ result.kind = "Err"
    /\ \E i \in 0 .. (RangeEnd - 1) : unit[i].st = "idle"
    /\ \E i \in Indices : unit[i].st = "new"
\* The first error a unit's future returned, if any.
FirstFatal == IF Len(fatal) > 0 THEN fatal[1] ELSE NoErr

\* C6: when a unit's future returned an error, the driver has left its loop
\* and main never returns Ok; the run eventually ends, and the error main
\* returns is the first error a unit returned.
C6_FirstFatalSurfaced ==
    /\ [](Len(fatal) > 0 => pc \in {"flush", "done"} /\ result.kind # "Ok")
    /\ [](result.kind = "Err" => Len(fatal) > 0 /\ result.err = FirstFatal)
    /\ [](Len(fatal) > 0 => <>(pc = "done" /\ result = ReturnErr(FirstFatal)))

\* C6 witness: the run returned the error of index 0 while index 1, whose
\* request had got an error response too, was dropped unpolled.
C6_Witness ==
    /\ pc = "done"
    /\ Len(fatal) = 1
    /\ result = ReturnErr(fatal[1])
    /\ fatal[1].idx = 0
    /\ unit[1].st = "responded"
    /\ unit[1].resp.kind = "transport"

\* C7: once the orchestrator has observed a fatal outcome, nothing more is
\* printed.
C7_NoSuccessAfterFatal == [][Observed => stdout' = stdout]_vars

\* C7 witness: the run ended on an error while a unit whose request had been
\* answered 200 was still in the group; it was never reported.
C7_Witness ==
    /\ result.kind = "Err"
    /\ \E i \in Indices :
           /\ unit[i].st = "responded"
           /\ unit[i].resp = [kind |-> "status", code |-> 200]
           /\ ~Reported(i)

\* Every index of the range was reported exactly once.
ReportedOnce ==
    /\ Len(stdout) = RangeEnd
    /\ \A i \in 0 .. (RangeEnd - 1) :
           Cardinality({k \in DOMAIN stdout : stdout[k] = Ordinal(i)}) = 1

\* C8: the run eventually ends, and when no unit failed it ends with Ok and
\* every index 0..N-1 reported exactly once.
C8_TerminatesWithSuccess ==
    <>(pc = "done" /\ (Len(fatal) = 0 => result = ReturnOk /\ ReportedOnce))

\* C8 witness: a run of the largest batch count ended with Ok.
C8_Witness ==
    /\ result = ReturnOk
    /\ batches >= 2
    /\ batches > concurrency_limit
    /\ Len(stdout) = batches

\* C9: main returns Ok only when the range is exhausted, no index waits for a
\* slot, the group is empty and every index of the range completed with Ok.
C9_OkOnlyIfAllSucceeded ==
    result.kind = "Ok" =>
        /\ iter = RangeEnd
        /\ item = NoItem
        /\ group = {}
        /\ Len(fatal) = 0
        /\ \A i \in 0 .. (RangeEnd - 1) : unit[i].st = "ok" /\ Reported(i)

\* C9 witness: Ok was returned after units completed out of issuance order.
C9_Witness ==
    /\ result.kind = "Ok"
    /\ Len(stdout) >= 2
    /\ stdout[1] > stdout[2]

NonErrorStatus(r) == r.kind = "status" /\ ~(r.code >= 400 /\ r.code <= 599)

\* C11: an index is reported only if its request was emitted and answered
\* with a status in the non-error range; no index is reported after a
\* transport failure or an error status.
C11_SentOnlyOnSuccessStatus ==
    \A i \in Indices :
        Reported(i) =>
            /\ NonErrorStatus(unit[i].resp)
            /\ requests[i] >= 1
            /\ unit[i].st = "ok"

\* C11 witness: an index answered 200 was reported while another index,
\* answered 429, was not.
C11_Witness ==
    \E i, j \in Indices :
        /\ Reported(i)
        /\ unit[i].resp = [kind |-> "status", code |-> 200]
        /\ unit[j].resp = [kind |-> "status", code |-> 429]
        /\ unit[j].st = "err"
        /\ ~Reported(j)

\* The contexts of the errors of generation and encoding.
PreSendContexts == {"gen line", "join", "compress data", "flush encoder"}

\* C14: a request is emitted for index i only after its generation and its
\* encoding both succeeded; when generation, the join or the compression
\* fails, no request is ever emitted for that index, its outcome is that
\* error, and the run does not return Ok.
C14_LinearLifecycle ==
    /\ \A i \in Indices :
           /\ requests[i] > 0 => unit[i].gen = "lines" /\ unit[i].enc # "none"
           /\ unit[i].gen \in {"gen line", "join"} =>
                  /\ requests[i] = 0
                  /\ result.kind # "Ok"
                  /\ unit[i].st \in {"generated", "err"}
    /\ \A k \in DOMAIN fatal :
           fatal[k].ctx \in PreSendContexts =>
               /\ requests[fatal[k].idx] = 0
               /\ unit[fatal[k].idx].st = "err"
               /\ pc \in {"flush", "done"}
               /\ result.kind # "Ok"

\* C14 witness: the run returned a compression error of an index for which
\* no request was emitted, after another index had been posted.
C14_Witness ==
    /\ result.kind = "Err"
    /\ result.err.ctx = "flush encoder"
    /\ requests[result.err.idx] = 0
    /\ \E j \in Indices : requests[j] = 1

\* Indices whose future has completed.
Completed == {i \in Indices : unit[i].st \in {"ok", "err"}}

\* C15 as stated: when the run has returned an error, every admitted unit has
\* run to completion.
C15_InFlightRunsToCompletion ==
    result.kind = "Err" => Admitted \ Completed = {}

\* C15 amended: after the first fatal outcome no admitted unit is polled
\* again: no further unit completes, no further request is emitted and
\* nothing is printed; the units still in flight are dropped where they are
\* when main returns the error.
C15_InFlightDropped ==
    [][Observed =>
          /\ Completed' = Completed
          /\ Started' = Started
          /\ requests' = requests
          /\ stdout' = stdout
          /\ group' = group]_vars

\* C15 witness: main returned the error of one unit while the request of
\* another unit was still unanswered.
C15_Witness ==
    /\ result.kind = "Err"
    /\ \E i \in group : unit[i].st = "sending" /\ result.err.idx # i

\* C19: with concurrency_limit = 1 at most one index is in the group, the
\* generation of index i + 1 starts only when the future of index i has
\* completed, and the ordinals are printed in issuance order.
C19_LimitOneSequential ==
    concurrency_limit = 1 =>
        /\ Cardinality(group) <= 1
        /\ \A i \in Indices :
               i > 0 /\ i \in Admitted => unit[i - 1].st \in {"ok", "err"}
        /\ \A k \in DOMAIN stdout : stdout[k] = k

\* C19 witness: with limit 1 two indices were reported and a third is being
\* generated.
C19_Witness ==
    /\ concurrency_limit = 1
    /\ stdout = <<1, 2>>
    /\ unit[2].st = "generating"
\* Indices whose request has been emitted.
Posted == {i \in Indices : requests[i] > 0}

\* C12: the Content-Encoding of every emitted request is "identity" exactly
\* when no compression level is configured and "gzip" exactly when one is;
\* without compression the body is the generated batch, byte for byte.
C12_ContentEncodingLabel ==
    \A i \in Posted :
        /\ unit[i].enc \in {"identity", "gzip"}
        /\ unit[i].enc = "identity" <=> compression_level = NoCompression
        /\ unit[i].enc = "gzip" <=> compression_level \in CompressionLevel
        /\ compression_level = NoCompression => unit[i].body = unit[i].lines

\* C12 witness: without compression a non-empty batch was posted as it was
\* generated, labelled identity.
C12_Witness ==
    \E i \in Posted :
        /\ compression_level = NoCompression
        /\ unit[i].enc = "identity"
        /\ Len(unit[i].body) > 0
        /\ unit[i].body = GenBatch(batch_lines)

\* C13: a generated batch of N configured lines is N records, each followed
\* by one newline, and nothing else (the empty string for N = 0).
C13_ExactlyNLines ==
    \A i \in Indices :
        unit[i].gen = "lines" =>
            /\ Len(unit[i].lines) = 2 * batch_lines
            /\ \A k \in 1 .. batch_lines :
                   /\ unit[i].lines[2 * k - 1] = Record
                   /\ unit[i].lines[2 * k] = Newline
            /\ Cardinality({k \in DOMAIN unit[i].lines : unit[i].lines[k] = Newline})
                   = batch_lines

\* C13 witness: a batch of the largest line count was generated and posted.
C13_Witness ==
    \E i \in Posted :
        /\ batch_lines >= 1
        /\ unit[i].gen = "lines"
        /\ Len(unit[i].lines) = 2 * batch_lines
        /\ unit[i].lines[Len(unit[i].lines)] = Newline

\* The last character of u is a slash and the one before it is not.
OneTrailingSlash(u) ==
    /\ Len(u) >= 1
    /\ u[Len(u)] = "/"
    /\ Len(u) >= 2 => u[Len(u) - 1] # "/"

\* C17: the URL of every request is a base followed by the write path; for a
\* configured URL ending in exactly one slash the base is that URL without
\* its last character, for one without trailing slash it is the URL itself,
\* and the base never ends in a slash.
C17_RequestUrl ==
    \A i \in Posted :
        LET r == unit[i].url
            base == SubSeq(r, 1, Len(r) - 1)
        IN  /\ Len(r) >= 1
            /\ r[Len(r)] = WritePath
            /\ OneTrailingSlash(url) => base = SubSeq(url, 1, Len(url) - 1)
            /\ (Len(url) = 0 \/ url[Len(url)] # "/") => base = url
            /\ Len(base) > 0 => base[Len(base)] # "/"

\* C17 witness: a request was emitted for the base URL "h/".
C17_Witness ==
    \E i \in Posted :
        /\ url = <<"h", "/">>
        /\ unit[i].url = <<"h", WritePath>>

\* C18: the indices join the group in the order 0, 1, 2, ... without gap or
\* repeat, all below the end of the range; generation starts only for
\* admitted indices.
C18_AdmissionOrder ==
    /\ \A k \in DOMAIN admissions : admissions[k] = k - 1
    /\ Len(admissions) <= RangeEnd
    /\ Admitted = {admissions[k] : k \in DOMAIN admissions}
    /\ Started \subseteq Admitted

\* C18 witness: with the unbounded default every index of the range was
\* admitted.
C18_Witness ==
    /\ batches = Unbounded
    /\ Len(admissions) = UsizeMax
    /\ Len(admissions) >= 2

\* C20: every index taken from the range is below its end, and the ordinal
\* printed for index i is i + 1, between 1 and the end of the range.
C20_OrdinalInRange ==
    /\ iter <= RangeEnd
    /\ item # NoItem => item < RangeEnd
    /\ \A i \in Admitted : i < RangeEnd
    /\ \A k \in DOMAIN stdout : stdout[k] >= 1 /\ stdout[k] <= RangeEnd
    /\ \A i \in Indices : unit[i].st = "ok" => \E k \in DOMAIN stdout : stdout[k] = i + 1
    /\ Len(stdout) = Cardinality({i \in Indices : unit[i].st = "ok"})

\* C20 witness: with the unbounded default the largest ordinal was printed.
C20_Witness ==
    /\ batches = Unbounded
    /\ \E k \in DOMAIN stdout : stdout[k] = UsizeMax

\* C16: admission is live.  An index waiting in send() is admitted as soon as
\* a slot is free, a completed unit frees its slot, and unless a fatal
\* outcome is observed every index of the range is eventually admitted.
C16_BackpressureLive ==
    /\ [](pc = "send" /\ count < concurrency_limit => ENABLED Insert)
    /\ [](count = Cardinality(group))
    /\ <>(Observed \/ Len(admissions) = RangeEnd)

\* C16 witness: with limit 1 a third index was admitted, each after the unit
\* before it had freed the slot.
C16_Witness ==
    /\ concurrency_limit = 1
    /\ Len(admissions) = 3
    /\ ~Observed

====
